---- MODULE Spec2Model ----
(***************************************************************************)
(* Model of the OneDrive backend of upload-backend:                        *)
(*   src/src/backend/onedrive/upload.rs  (upload, path resolution, chunks) *)
(*   src/src/backend/onedrive/auth.rs    (refresh)                         *)
(*   src/src/backend/onedrive/mod.rs     (credential state, refresh loop)  *)
(*                                                                         *)
(* Byte counts and offsets are counted in units of 1 MiB, times in         *)
(* seconds.  A path is the sequence of its normal components; the drive    *)
(* root "/" is the empty sequence.  A remote item identifier is modelled   *)
(* by the path of the item it denotes on the server.                       *)
(***************************************************************************)
EXTENDS Integers, Sequences, FiniteSets

(***************************************************************************)
(* Program constants.                                                      *)
(***************************************************************************)
\* upload.rs:13  MAX_FILE_LIMIT = 250 * 1024 * 1024 * 1024 bytes = 250 * 1024 MiB
MAX_FILE_LIMIT == 250 * 1024
\* upload.rs:16  CHUNK_SIZE = 10 * 1024 * 1024 bytes = 10 MiB
CHUNK_SIZE == 10
\* mod.rs:119  safety margin of the refresh loop, seconds
REFRESH_MARGIN == 120
\* mod.rs:129  poll interval of the refresh loop, seconds
POLL_INTERVAL == 60

(***************************************************************************)
(* Bounds of the model.                                                    *)
(***************************************************************************)
\* number of clock steps (of TickLen seconds each) the model follows
MaxTicks == 2
\* longest destination path (components below the configured folder)
MaxDepth == 2
\* chunk PUTs followed per upload
MaxPuts == 3
\* range offsets the server may report: 0, 5, 10, ... (MiB)
MaxOffset == 3

TickLen == POLL_INTERVAL \div 2
MaxTime == MaxTicks * TickLen

(***************************************************************************)
(* Strings: a string is a sequence of one-character strings.               *)
(***************************************************************************)
Digit == <<"0", "1", "2", "3", "4", "5", "6", "7", "8", "9">>
DigitChars == {Digit[i] : i \in 1..10}
DigitVal(c) == (CHOOSE i \in 1..10 : Digit[i] = c) - 1

\* format!("{}", n) of a u64
RECURSIVE FormatU64(_)
FormatU64(n) == IF n < 10 THEN <<Digit[n + 1]>>
                ELSE FormatU64(n \div 10) \o <<Digit[(n % 10) + 1]>>

\* str::parse::<u64>: Err (here -1) on the empty string or a non-digit
RECURSIVE ParseDigits(_, _)
ParseDigits(s, acc) == IF s = <<>> THEN acc
                       ELSE ParseDigits(Tail(s), acc * 10 + DigitVal(Head(s)))
ParseU64(s) == IF s = <<>> \/ \E i \in 1..Len(s) : s[i] \notin DigitChars
               THEN -1 ELSE ParseDigits(s, 0)

\* str::split(sep): the pieces between separators, empty pieces included
RECURSIVE SplitAcc(_, _, _)
SplitAcc(s, sep, cur) ==
    IF s = <<>> THEN <<cur>>
    ELSE IF Head(s) = sep THEN <<cur>> \o SplitAcc(Tail(s), sep, <<>>)
    ELSE SplitAcc(Tail(s), sep, Append(cur, Head(s)))
Split(s, sep) == SplitAcc(s, sep, <<>>)

(***************************************************************************)
(* u64_to_size_string (upload.rs:360-369).  A byte count is written in     *)
(* base UNIT_FACTOR with two significant digits: [hi, lo, e] is the count  *)
(* (hi * UNIT_FACTOR + lo) * UNIT_FACTOR^e, hi = 0 only with e = 0.  Such  *)
(* a count has at most 20 significant bits, so `size as f64` and the       *)
(* division by a power of two are exact.                                   *)
(***************************************************************************)
\* upload.rs:367  1024_f64
UNIT_FACTOR == 1024
\* upload.rs:362
units == << <<"B">>, <<"K", "B">>, <<"M", "B">>, <<"G", "B">>, <<"T", "B">>,
            <<"P", "B">>, <<"E", "B">>, <<"Z", "B">>, <<"Y", "B">> >>
\* a count given in units of 1 MiB = UNIT_FACTOR^2 bytes
MiB(n) == [hi |-> n \div UNIT_FACTOR, lo |-> n % UNIT_FACTOR, e |-> 2]
\* the count is UNIT_FACTOR^k
IsPower(b, k) == IF k = 0 THEN b.hi = 0 /\ b.lo = 1
                 ELSE b.hi = 1 /\ b.lo = 0 /\ b.e + 1 = k
\* variant: size <= 1024^k
Below_inclusive(b, k) ==
    (IF b.hi > 0 THEN b.e + 1 < k ELSE (k >= 1 \/ b.lo = 0)) \/ IsPower(b, k)
\* upload.rs:367  size < 1024_f64.powi(k)
Below(b, k) == IF b.hi > 0 THEN b.e + 1 < k ELSE (k >= 1 \/ b.lo = 0)
\* upload.rs:364-368  the first index i with size < 1024^(i + 1), else the last
UnitIndex(b) ==
    IF \E i \in 0..(Len(units) - 1) : Below(b, i + 1)
    THEN CHOOSE i \in 0..(Len(units) - 1) :
             /\ Below(b, i + 1)
             /\ \A j \in 0..(i - 1) : ~Below(b, j + 1)
    ELSE Len(units) - 1
\* n / d rounded to the nearest integer, a tie to the even one: the rounding
\* of format!("{:.2}") on the exact value
RoundDiv(n, d) == LET q == n \div d
                      r == n % d
                  IN IF 2 * r > d \/ (2 * r = d /\ q % 2 = 1) THEN q + 1 ELSE q
\* upload.rs:369  size / 1024^i in hundredths, for the unit i the count is
\* rendered in: that of its low digit or that of its high digit
Hundredths(b, i) ==
    IF i = b.e THEN (b.hi * UNIT_FACTOR + b.lo) * 100
    ELSE RoundDiv((b.hi * UNIT_FACTOR + b.lo) * 100, UNIT_FACTOR)
\* upload.rs:369  format!("{:.2} {}", ...)
u64_to_size_string(b) ==
    LET i == UnitIndex(b)
        h == Hundredths(b, i)
    IN FormatU64(h \div 100) \o <<".">>
       \o <<Digit[((h % 100) \div 10) + 1], Digit[(h % 10) + 1]>>
       \o <<" ">> \o units[i + 1]

(***************************************************************************)
(* Paths.                                                                  *)
(***************************************************************************)
NoPath == <<-1>>
\* variant: the parent of a folder is the folder itself
Parent_same(p) == IF p = <<>> THEN NoPath ELSE p
\* Path::parent: None (NoPath) for the root
Parent(p) == IF p = <<>> THEN NoPath ELSE SubSeq(p, 1, Len(p) - 1)
\* Path::file_name of a path with normal components
FileName(p) == p[Len(p)]
\* variant: no path counts as absolute
HasRoot_never(p) == FALSE
\* upload.rs:337  path.has_root()
HasRoot(p) == p.root
\* PathBuf::join of the absolute configured folder and a relative path
Join(base, rel) == base \o rel

(***************************************************************************)
(* HTTP.                                                                   *)
(***************************************************************************)
Statuses == {200, 201, 202, 204, 304, 404, 500}
\* a request that got no response (send() failed)
TransportError == [sent |-> FALSE, st |-> 0, body |-> "bad"]
\* body: "good" deserialises into what the caller expects, "noid" is JSON
\* without the expected member, "bad" is not JSON
Bodies == {"good", "noid", "bad"}
Responses == {TransportError} \cup
             {[sent |-> TRUE, st |-> s, body |-> "good"] : s \in Statuses} \cup
             {[sent |-> TRUE, st |-> s, body |-> b] :
                  s \in {200, 201, 202}, b \in Bodies}
\* reqwest Response::error_for_status returns Err exactly for 4xx and 5xx
IsErrStatus(st) == st >= 400 /\ st <= 599

\* response.error_for_status().unwrap_err(): the typed error for a 4xx/5xx
\* status, a panic (unwrap_err on Ok) for every other status
StatusError(st, kind) == IF IsErrStatus(st) THEN kind ELSE "panic_unwrap_err"

(***************************************************************************)
(* Decisions of upload.rs, as the code computes them.                      *)
(***************************************************************************)
\* variant: the limit is compared one unit too high
FileTooLarge_limit_off(s) == s > MAX_FILE_LIMIT + 1
\* upload.rs:31
FileTooLarge(s) == s > MAX_FILE_LIMIT
\* variant: the threshold is compared one unit too low
UseDirect_below(s) == s < CHUNK_SIZE - 1
\* variant: the threshold itself goes the direct way
UseDirect_inclusive(s) == s <= CHUNK_SIZE
\* upload.rs:39
UseDirect(s) == s < CHUNK_SIZE
\* variant: the comparison is reversed
SessionExpired_reversed(exp, t) == exp > t
\* upload.rs:108, 122  expiration_date_time < Utc::now()
SessionExpired(exp, t) == exp < t

\* variant: a missing folder is an error, nothing is created
LookupOutcome_missing_is_error(resp) ==
    IF ~resp.sent THEN "GetParentId"
    ELSE IF resp.st = 200 THEN
        (IF resp.body = "bad" THEN "GetParentId"
         ELSE IF resp.body = "noid" THEN "Parsing" ELSE "Ok")
    ELSE StatusError(resp.st, "GetParentId")
\* upload.rs:258-281  match response.status() of get_parent_id
LookupOutcome(resp) ==
    IF ~resp.sent THEN "GetParentId"
    ELSE IF resp.st = 200 THEN
        (IF resp.body = "bad" THEN "GetParentId"
         ELSE IF resp.body = "noid" THEN "Parsing" ELSE "Ok")
    ELSE IF resp.st = 404 THEN "NotFound"
    ELSE StatusError(resp.st, "GetParentId")

\* upload.rs:310-333  match response.status() of create_folder
CreateOutcome(resp) ==
    IF ~resp.sent THEN "CreateDir"
    ELSE IF resp.st = 201 THEN
        (IF resp.body = "bad" THEN "GetParentId"
         ELSE IF resp.body = "noid" THEN "Parsing" ELSE "Ok")
    ELSE IF resp.st = 404 THEN "NotFound"
    ELSE StatusError(resp.st, "CreateDir")

\* upload.rs:93-98  match response.status() of upload_file
DirectOutcome(resp) ==
    IF ~resp.sent THEN "UploadFile"
    ELSE IF resp.st \in {200, 201} THEN "Ok"
    ELSE StatusError(resp.st, "UploadFile")

\* upload.rs:222-234  match response.status() of create_session
SessionOutcome(resp) ==
    IF ~resp.sent THEN "CreateUploadSessionRequest"
    ELSE IF resp.st = 200 THEN
        (IF resp.body = "good" THEN "Ok" ELSE "CreateUploadSessionRequest")
    ELSE StatusError(resp.st, "CreateUploadSessionRequest")

\* variant: a chunk that got no response is passed over and the loop goes on
ChunkOutcome_goes_on(resp) ==
    IF ~resp.sent THEN "Some"
    ELSE IF resp.st = 202 THEN
        (IF resp.body = "good" THEN "Some" ELSE "UploadFileSessionRequest")
    ELSE IF resp.st \in {200, 201} THEN "None"
    ELSE StatusError(resp.st, "UploadFileSessionRequest")
\* upload.rs:184-197  match response.status() of upload_session:
\* "Some" is Ok(Some(json)), "None" is Ok(None)
ChunkOutcome(resp) ==
    IF ~resp.sent THEN "UploadFileSessionRequest"
    ELSE IF resp.st = 202 THEN
        (IF resp.body = "good" THEN "Some" ELSE "UploadFileSessionRequest")
    ELSE IF resp.st \in {200, 201} THEN "None"
    ELSE StatusError(resp.st, "UploadFileSessionRequest")

\* upload.rs:114-119  the first chunk's result: .ok_or(UploadFileSession)?
FirstChunkOutcome(o) == IF o = "None" THEN "UploadFileSession" ELSE o
\* upload.rs:136-139  a later chunk's result: None => break, then Ok(())
LaterChunkOutcome(o) == IF o = "None" THEN "Ok" ELSE o

\* upload.rs:158-169  bytes read from a source of srcLen bytes at start_pos
Min(a, b) == IF a < b THEN a ELSE b
ChunkLen(len, pos) == IF pos >= len THEN 0 ELSE Min(CHUNK_SIZE, len - pos)

\* upload.rs:127-132  split('-'), parse each piece (unwrap), take range[0];
\* -1 stands for the panic of unwrap on a piece that is no u64
RangePieces(r) == [i \in 1..Len(Split(r, "-")) |-> ParseU64(Split(r, "-")[i])]
\* variant: the last piece (the range's end) is taken
RangeStart_end(r) == IF \E i \in 1..Len(RangePieces(r)) : RangePieces(r)[i] = -1
                     THEN -1 ELSE RangePieces(r)[Len(RangePieces(r))]
RangeStart(r) == IF \E i \in 1..Len(RangePieces(r)) : RangePieces(r)[i] = -1
                 THEN -1 ELSE RangePieces(r)[1]

(***************************************************************************)
(* State.                                                                  *)
(***************************************************************************)
VARIABLES
    now,            \* chrono::Utc::now(), seconds
    folder,         \* OnedriveInner.folder, the configured (absolute) folder
    srv,            \* the remote side: how it answers, the folders the drive holds
    access_token,   \* OnedriveInner.access_token   (ArcSwap<String>)
    refresh_token,  \* OnedriveInner.refresh_token  (ArcSwap<String>)
    expires_at,     \* OnedriveInner.expires_at     (AtomicU64)
    rpc,            \* position of the background task of refresh_handle
    wake,           \* end of the task's current sleep
    token_result,   \* the token response refresh() is working on
    issued,         \* token responses issued by the token endpoint so far
    pre,            \* the credential triple when the current refresh() began
    snapshots,      \* the triples stored by construction and completed refreshes
    observed,       \* what a concurrent reader last loaded
    dropped,        \* Onedrive was dropped: refresh_handle.abort() was called
    turns,          \* turns of the task's loop and calls of refresh() so far
    upc,            \* position of the upload() call
    size,           \* upload(): declared size
    srcLen,         \* bytes the reader really holds
    path,           \* upload(): destination path
    stack,          \* pending get_parent_id / create_folder calls, innermost last
    ret,            \* value being returned by the innermost finished call
    parent_id,      \* calu_path's parent_id
    session,        \* FirstUploadSessionResponse
    uploading,      \* UploadSession of the last 202 response
    start_pos,      \* upload_file_with_session: start_pos
    result,         \* what upload() returned
    reqs,           \* requests issued by this upload, per kind
    lastPut,        \* range, length and bearer token of the last content PUT
    lastResp,       \* what the server answered to the last content PUT
    lastCheck,      \* the expiration comparison made since the last chunk PUT:
                    \* the value compared and the time it was compared with
    resolved,       \* successful returns of get_parent_id: <<folder, id>>
    bearer,         \* the bearer tokens of this upload's first and latest request
    bytes,          \* u64_to_size_string: its argument
    rendered        \* u64_to_size_string: the string it returned

credVars   == <<access_token, refresh_token, expires_at, rpc, wake, token_result,
                issued, pre, snapshots, observed, dropped, turns>>
uploadVars == <<upc, size, srcLen, path, stack, ret, parent_id, session, uploading,
                start_pos, result, reqs, lastPut, lastResp, lastCheck, resolved,
                bearer>>
sizeVars   == <<bytes, rendered>>
envVars    == <<now, folder, srv, sizeVars>>
vars       == <<now, folder, srv, sizeVars, credVars, uploadVars>>

(***************************************************************************)
(* Values.                                                                 *)
(***************************************************************************)
\* declared sizes around the two thresholds
Sizes == {0, CHUNK_SIZE - 1, CHUNK_SIZE, CHUNK_SIZE + (CHUNK_SIZE \div 2),
          MAX_FILE_LIMIT, MAX_FILE_LIMIT + 1}
\* what the reader holds: the declared size, or nothing at all
SrcLens(s) == IF s = CHUNK_SIZE + (CHUNK_SIZE \div 2) THEN {s, 0} ELSE {s}
\* destination paths: absolute or relative, components 1, 2, ...
Paths == {[root |-> FALSE, segs |-> [i \in 1..k |-> i]] : k \in 0..MaxDepth}
         \cup {[root |-> TRUE, segs |-> <<1>>]}
\* the calls of upload() that are followed: every size with the short paths,
\* every path with the sizes up to the chunk threshold
Calls == {c \in Sizes \X Paths : Len(c[2].segs) <= 1 \/ c[1] <= CHUNK_SIZE}
\* the configured folder: "/" or "/0"
Folders == {<<>>, <<0>>}
\* offsets the server may name in nextExpectedRanges
Offsets == {k * (CHUNK_SIZE \div 2) : k \in 0..MaxOffset}
\* "N-M" and "N-"
ClosedRange(n, m) == FormatU64(n) \o <<"-">> \o FormatU64(m)
OpenRange(n) == FormatU64(n) \o <<"-">>

NoRet == [set |-> FALSE, ok |-> FALSE, val |-> NoPath, err |-> "none"]
OkRet(id) == [set |-> TRUE, ok |-> TRUE, val |-> id, err |-> "none"]
ErrRet(e) == [set |-> TRUE, ok |-> FALSE, val |-> NoPath, err |-> e]
Frame(fn, f) == [fn |-> fn, folder |-> f, pc |-> "start", parent_id |-> NoPath]
NoSession == [expiration_date_time |-> -1]
NoUploading == [next_expected_ranges |-> <<>>, expiration_date_time |-> -1]
NoPut == [start |-> -1, len |-> -1, end |-> -1, total |-> -1, token |-> <<"at", -1>>]
NoResp == [st |-> 0, first |-> -1]
NoCheck == [exp |-> -1, at |-> -1]
NoReqs == [lookup |-> 0, create |-> 0, session |-> 0, direct |-> 0, chunk |-> 0]
Total(r) == r.lookup + r.create + r.session + r.direct + r.chunk

\* byte counts handed to u64_to_size_string: around each unit's threshold
NoBytes == [hi |-> 0, lo |-> 0, e |-> 0]
HighDigits == {1, 2, 250, UNIT_FACTOR - 1}
LowDigits == {0, 1, 5, UNIT_FACTOR \div 2, UNIT_FACTOR - 5, UNIT_FACTOR - 1}
\* a u64 is below 16 * UNIT_FACTOR^6
ByteCounts == {[hi |-> 0, lo |-> l, e |-> 0] : l \in LowDigits}
              \cup {b \in [hi : HighDigits, lo : LowDigits, e : 0..5] :
                        b.e = 5 => b.hi < 16}

AccessToken(g) == <<"at", g>>
NoToken == <<"at", -1>>
NoBearer == [first |-> NoToken, last |-> NoToken]
RefreshToken(g) == <<"rt", g>>
\* lifetimes (expires_in) the token endpoint hands out, seconds
Lifetimes == {POLL_INTERVAL, REFRESH_MARGIN + TickLen, 3600}
\* a token response: kind is "ok", "rejected" (the endpoint refuses the refresh
\* token) or "unreachable"; gen numbers the token pairs the endpoint issues;
\* presented is the refresh token the request carried
NoTokenResult == [kind |-> "none", gen |-> 0, has_refresh |-> FALSE,
                  has_expires |-> FALSE, expires_in |-> 0,
                  presented |-> RefreshToken(0)]
TokenResponses(g, sent) ==
    {[kind |-> "ok", gen |-> g, has_refresh |-> hr, has_expires |-> he,
      expires_in |-> l, presented |-> sent] :
         hr \in BOOLEAN, he \in BOOLEAN, l \in Lifetimes}
    \cup {[kind |-> k, gen |-> -1, has_refresh |-> FALSE, has_expires |-> FALSE,
           expires_in |-> 0, presented |-> sent] : k \in {"rejected", "unreachable"}}
\* lifetimes above the margin of the background task
LongLifetimes == {l \in Lifetimes : l > REFRESH_MARGIN} \cup {REFRESH_MARGIN + 1}
\* what the token endpoint answers: anything, or, in mode "prompt", a new
\* token pair with a lifetime above the margin each time
TokenAnswers(g, sent) ==
    IF srv.mode = "prompt"
    THEN {[kind |-> "ok", gen |-> g, has_refresh |-> TRUE, has_expires |-> TRUE,
           expires_in |-> l, presented |-> sent] : l \in LongLifetimes}
    ELSE TokenResponses(g, sent)
\* auth.rs:217-220
calu_expires_at(expires_in) == now + expires_in
Triple == <<access_token, refresh_token, expires_at>>

\* The remote drive.  In mode "any" each request may get any response; in
\* mode "sequential" the drive is a faultless server that keeps its folders:
\* a folder exists once created, nothing is deleted, every request is
\* answered by what the drive holds.  initial is what it held at first,
\* created the folders it created, in order.
AnyServer == [mode |-> "any", initial |-> {}, exists |-> {}, created |-> <<>>]
\* In mode "deadline" the drive answers as it likes, but it never reports an
\* expiration after Deadline, and the answer to a chunk takes RoundTrip.
DeadlineServer == [AnyServer EXCEPT !.mode = "deadline"]
\* In mode "prompt" every refresh succeeds and nothing is late: the token
\* endpoint answers at once and the task runs as soon as it can, so time
\* passes only while the task sleeps.
PromptServer == [AnyServer EXCEPT !.mode = "prompt"]
Prefixes(p) == {SubSeq(p, 1, j) : j \in 0..Len(p)}
\* the folders a destination's parent chain can pass through
ChainFolders == UNION {Prefixes(Parent(Join(f, q.segs))) :
                          f \in Folders, q \in {r \in Paths : r.segs # <<>>}}
SequentialServers == {[mode |-> "sequential", initial |-> Prefixes(p),
                       exists |-> Prefixes(p), created |-> <<>>] : p \in ChainFolders}
Answer(st) == [sent |-> TRUE, st |-> st, body |-> "good"]
\* answers to GET /me/drive/root:{folder}  (upload.rs:249-256)
LookupResponses(f) ==
    IF srv.mode = "sequential" THEN {Answer(IF f \in srv.exists THEN 200 ELSE 404)}
    ELSE Responses
\* answers to POST /me/drive/items/{parent_id}/children  (upload.rs:300-308)
CreateResponses(p) ==
    IF srv.mode = "sequential" THEN {Answer(IF p \in srv.exists THEN 201 ELSE 404)}
    ELSE Responses
\* the drive after it answered resp to the creation of item id
ServerAfterCreate(resp, id) ==
    IF srv.mode = "sequential" /\ resp.sent /\ resp.st = 201
    THEN [srv EXCEPT !.exists = @ \cup {id}, !.created = Append(@, id)]
    ELSE srv
\* answers to the content PUT of upload_file  (upload.rs:84-91)
DirectResponses == IF srv.mode = "sequential" THEN {Answer(201)} ELSE Responses
\* answers to POST .../createUploadSession  (upload.rs:212-220)
SessionResponses == IF srv.mode = "sequential" THEN {Answer(200)} ELSE Responses
\* answers to the PUT of the chunk [start, start + len) of size bytes
\* (upload.rs:171-182)
ChunkResponses(start, len) ==
    IF srv.mode = "sequential"
    THEN {Answer(IF start + len >= size THEN 201 ELSE 202)}
    ELSE Responses

\* variant: the token is loaded once, with the upload's first request
Bearer_captured == IF bearer.first = NoToken THEN access_token ELSE bearer.first
\* upload.rs:86, 173, 211, 251, 298  format!("Bearer {}", self.access_token):
\* the ArcSwap is loaded when the header is formatted
Bearer == access_token
\* the request being built is sent with Bearer
Sent == [first |-> IF bearer.first = NoToken THEN Bearer ELSE bearer.first,
         last |-> Bearer]

Top == stack[Len(stack)]
Pop == SubSeq(stack, 1, Len(stack) - 1)
SetTop(f) == [stack EXCEPT ![Len(stack)] = f]

(***************************************************************************)
(* Init: the state after Onedrive::new_with_refresh_token / new_with_code  *)
(* (auth.rs:197-214, mod.rs:66-111): the first token response is stored,   *)
(* the background task is spawned, no upload has been called.              *)
(***************************************************************************)
Constructed(lifetimes, servers) ==
    /\ now = 0
    /\ folder \in Folders
    /\ srv \in servers
    /\ access_token = AccessToken(0)
    /\ refresh_token = RefreshToken(0)
    /\ expires_at \in {now + l : l \in lifetimes}
    /\ rpc = "check"
    /\ wake = 0
    /\ token_result = NoTokenResult
    /\ issued = 0
    /\ pre = <<access_token, refresh_token, expires_at>>
    /\ snapshots = {<<access_token, refresh_token, expires_at>>}
    /\ observed = <<access_token, refresh_token, expires_at>>
    /\ dropped = FALSE
    /\ turns = [ticks |-> 0, refreshes |-> 0]
    /\ upc = "idle"
    /\ size = 0
    /\ srcLen = 0
    /\ path = [root |-> FALSE, segs |-> <<>>]
    /\ stack = <<>>
    /\ ret = NoRet
    /\ parent_id = NoPath
    /\ session = NoSession
    /\ uploading = NoUploading
    /\ start_pos = 0
    /\ result = "none"
    /\ reqs = NoReqs
    /\ lastPut = NoPut
    /\ lastResp = NoResp
    /\ lastCheck = NoCheck
    /\ resolved = {}
    /\ bearer = NoBearer
    /\ bytes = NoBytes
    /\ rendered = <<>>

\* the upload model follows one lifetime of the first token, the credential
\* model every lifetime
Init == Constructed({REFRESH_MARGIN + TickLen}, {AnyServer})
CredInit == Constructed(Lifetimes, {AnyServer})
\* the upload model against the sequential drive
SeqInit == Constructed({REFRESH_MARGIN + TickLen}, SequentialServers)
\* an upload while the first token is due for refresh, the drive holding
\* its root only
JointInit == Constructed({POLL_INTERVAL},
                         {d \in SequentialServers : d.initial = {<<>>}})

\* how far the clock is followed: past the first token's margin where only
\* the background task runs
Horizon == IF srv.mode = "prompt" THEN MaxTime + 2 * POLL_INTERVAL ELSE MaxTime
\* the clock advances
Tick ==
    /\ now < Horizon
    /\ srv.mode = "prompt" => (rpc = "sleep" /\ now < wake)
    /\ now' = now + TickLen
    /\ UNCHANGED <<folder, srv, sizeVars, credVars, uploadVars>>

(***************************************************************************)
(* upload()  (upload.rs:25-47) with the prologue of calu_path              *)
(* (upload.rs:336-346) up to its first request.                            *)
(***************************************************************************)
\* upload() returns (or panics with) res
Finish(res) ==
    /\ upc' = "done"
    /\ result' = res
    /\ stack' = <<>>
    /\ ret' = NoRet

StartUpload ==
    /\ upc = "idle"
    /\ \E c \in Calls :
        LET s == c[1]
            p == c[2]
        IN
        /\ size' = s
        /\ srcLen' \in SrcLens(s)
        /\ path' = p
        /\ IF FileTooLarge(s)
           THEN /\ Finish("FileTooLarge")
                /\ bytes' = MiB(s)
                /\ rendered' = u64_to_size_string(MiB(s))
           ELSE /\ UNCHANGED sizeVars
                /\ IF HasRoot(p) THEN Finish("InvalidPath")
                   ELSE IF Parent(Join(folder, p.segs)) = NoPath
                   THEN Finish("InvalidPath")
                   ELSE /\ upc' = IF UseDirect(s) THEN "direct_resolve"
                                  ELSE "session_resolve"
                        /\ stack' = <<Frame("get", Parent(Join(folder, p.segs)))>>
                        /\ UNCHANGED <<result, ret>>
    /\ UNCHANGED <<now, folder, srv, credVars, parent_id, session, uploading,
                   start_pos, reqs, lastPut, lastResp, lastCheck, resolved,
                   bearer>>

(***************************************************************************)
(* Path resolution: get_parent_id (upload.rs:237-282) and create_folder    *)
(* (upload.rs:284-334).  The honest server names every item by its path:   *)
(* a lookup of folder f reports f, a folder named n created under the item *)
(* p is the item p/n.                                                      *)
(***************************************************************************)
Resolving == upc \in {"direct_resolve", "session_resolve"}

\* get_parent_id: the GET and the match on its status
GetParentIdRequest ==
    /\ Resolving /\ ~ret.set /\ stack # <<>>
    /\ Top.fn = "get" /\ Top.pc = "start"
    /\ reqs' = [reqs EXCEPT !.lookup = @ + 1]
    /\ bearer' = Sent
    /\ \E resp \in LookupResponses(Top.folder) :
        LET o == LookupOutcome(resp) IN
        CASE o = "Ok" ->
                /\ stack' = Pop
                /\ ret' = OkRet(Top.folder)
                /\ resolved' = resolved \cup {<<Top.folder, Top.folder>>}
                /\ UNCHANGED <<upc, result>>
          [] o = "NotFound" ->
                /\ stack' = Append(SetTop([Top EXCEPT !.pc = "await_create"]),
                                   Frame("create", Top.folder))
                /\ UNCHANGED <<upc, result, ret, resolved>>
          [] o = "panic_unwrap_err" ->
                /\ Finish(o)
                /\ UNCHANGED resolved
          [] OTHER ->
                /\ stack' = Pop
                /\ ret' = ErrRet(o)
                /\ UNCHANGED <<upc, result, resolved>>
    /\ UNCHANGED <<envVars, credVars, size, srcLen, path, parent_id, session,
                   uploading, start_pos, lastPut, lastResp, lastCheck>>

\* create_folder: folder.parent() and the call of get_parent_id(parent)
CreateFolderStart ==
    /\ Resolving /\ ~ret.set /\ stack # <<>>
    /\ Top.fn = "create" /\ Top.pc = "start"
    /\ IF Parent(Top.folder) = NoPath
       THEN /\ stack' = Pop
            /\ ret' = ErrRet("InvalidPath")
       ELSE /\ stack' = Append(SetTop([Top EXCEPT !.pc = "await_parent"]),
                               Frame("get", Parent(Top.folder)))
            /\ UNCHANGED ret
    /\ UNCHANGED <<envVars, credVars, upc, size, srcLen, path, parent_id, session,
                   uploading, start_pos, result, reqs, lastPut, lastResp, lastCheck,
                   resolved, bearer>>

\* create_folder: the POST under parent_id and the match on its status
CreateFolderRequest ==
    /\ Resolving /\ ~ret.set /\ stack # <<>>
    /\ Top.fn = "create" /\ Top.pc = "post"
    /\ reqs' = [reqs EXCEPT !.create = @ + 1]
    /\ bearer' = Sent
    /\ \E resp \in CreateResponses(Top.parent_id) :
        LET o == CreateOutcome(resp) IN
        /\ srv' = ServerAfterCreate(resp, Append(Top.parent_id, FileName(Top.folder)))
        /\ CASE o = "Ok" ->
                  /\ stack' = Pop
                  /\ ret' = OkRet(Append(Top.parent_id, FileName(Top.folder)))
                  /\ UNCHANGED <<upc, result>>
             [] o = "NotFound" ->
                  /\ stack' = Append(SetTop([Top EXCEPT !.pc = "await_retry"]),
                                     Frame("create", Parent(Top.folder)))
                  /\ UNCHANGED <<upc, result, ret>>
             [] o = "panic_unwrap_err" ->
                  Finish(o)
             [] OTHER ->
                  /\ stack' = Pop
                  /\ ret' = ErrRet(o)
                  /\ UNCHANGED <<upc, result>>
    /\ UNCHANGED <<now, folder, sizeVars, credVars, size, srcLen, path, parent_id,
                   session, uploading, start_pos, lastPut, lastResp, lastCheck,
                   resolved>>

\* the innermost call has finished: its caller goes on
\*   get_parent_id  line 276: returns what create_folder(folder) returned
\*   create_folder  line 288: `?` on get_parent_id(parent), else parent_id is set
\*   create_folder  line 328: returns what create_folder(parent) returned
ResolverReturn ==
    /\ Resolving /\ ret.set /\ stack # <<>>
    /\ CASE Top.pc = "await_create" ->
                /\ stack' = Pop
                /\ resolved' = IF ret.ok THEN resolved \cup {<<Top.folder, ret.val>>}
                               ELSE resolved
                /\ UNCHANGED ret
         [] Top.pc = "await_parent" /\ ret.ok ->
                /\ stack' = SetTop([Top EXCEPT !.pc = "post", !.parent_id = ret.val])
                /\ ret' = NoRet
                /\ UNCHANGED resolved
         [] OTHER ->
                /\ stack' = Pop
                /\ UNCHANGED <<ret, resolved>>
    /\ UNCHANGED <<envVars, credVars, upc, size, srcLen, path, parent_id, session,
                   uploading, start_pos, result, reqs, lastPut, lastResp, lastCheck,
                   bearer>>

\* calu_path (upload.rs:346-355): `?` on get_parent_id(parent), then the
\* caller (upload_file line 69, create_session line 201) goes on
CaluPathReturn ==
    /\ Resolving /\ ret.set /\ stack = <<>>
    /\ IF ret.ok
       THEN /\ parent_id' = ret.val
            /\ upc' = IF upc = "direct_resolve" THEN "direct_put" ELSE "create_session"
            /\ ret' = NoRet
            /\ UNCHANGED <<stack, result>>
       ELSE /\ Finish(ret.err)
            /\ UNCHANGED parent_id
    /\ UNCHANGED <<envVars, credVars, size, srcLen, path, session, uploading,
                   start_pos, reqs, lastPut, lastResp, lastCheck, resolved,
                   bearer>>

(***************************************************************************)
(* upload_file (upload.rs:71-98): read the whole source, one PUT.          *)
(***************************************************************************)
DirectPut ==
    /\ upc = "direct_put"
    /\ \E io \in BOOLEAN, resp \in DirectResponses :
        IF ~io
        THEN /\ Finish("ReadFile")
             /\ UNCHANGED <<reqs, lastPut, lastResp, bearer>>
        ELSE /\ reqs' = [reqs EXCEPT !.direct = @ + 1]
             /\ bearer' = Sent
             /\ lastPut' = [start |-> 0, len |-> srcLen, end |-> srcLen - 1,
                            total |-> srcLen, token |-> Bearer]
             /\ lastResp' = [st |-> resp.st, first |-> -1]
             /\ Finish(DirectOutcome(resp))
    /\ UNCHANGED <<envVars, credVars, size, srcLen, path, parent_id, session,
                   uploading, start_pos, lastCheck, resolved>>

(***************************************************************************)
(* upload_file_with_session (upload.rs:101-143).                           *)
(***************************************************************************)
\* expirations the server may report
Expirations == {e \in {now - TickLen, now, now + TickLen} : e >= 0}
\* the sequential drive grants one clock step
\* the instant the deadline drive never goes beyond
Deadline == TickLen
SessionExpirations ==
    CASE srv.mode = "sequential" -> {now + TickLen}
      [] srv.mode = "deadline" -> {k * TickLen : k \in 0..(Deadline \div TickLen)}
      [] OTHER -> Expirations
\* the time that passes while a chunk PUT is awaited (upload.rs:179-180)
RoundTrip == IF srv.mode = "deadline" THEN TickLen ELSE 0

\* lines 107-113: create_session (200-234) and the first expiration check
CreateSession ==
    /\ upc = "create_session"
    /\ reqs' = [reqs EXCEPT !.session = @ + 1]
    /\ bearer' = Sent
    /\ \E resp \in SessionResponses, e \in SessionExpirations :
        LET o == SessionOutcome(resp) IN
        IF o = "Ok"
        THEN /\ session' = [expiration_date_time |-> e]
             /\ lastCheck' = [exp |-> e, at |-> now]
             /\ IF SessionExpired(e, now)
                THEN /\ Finish("UploadFileSession")
                     /\ UNCHANGED start_pos
                ELSE /\ start_pos' = 0
                     /\ upc' = "chunk_first"
                     /\ UNCHANGED <<result, stack, ret>>
        ELSE /\ Finish(o)
             /\ UNCHANGED <<session, lastCheck, start_pos>>
    /\ UNCHANGED <<envVars, credVars, size, srcLen, path, parent_id, uploading,
                   lastPut, lastResp, resolved>>

\* what a 202 body may hold: no range, or a first range "N-M" or "N-",
\* alone or followed by a second, non-contiguous range
RangeList(n, open) ==
    IF open THEN <<OpenRange(n)>>
    ELSE <<ClosedRange(n, n + (CHUNK_SIZE \div 2) - 1), OpenRange(n + 2 * CHUNK_SIZE)>>
\* nextExpectedRanges of a 202 answer to the chunk [start, start + len),
\* with the start the server means by the first range (-1 if none); the
\* sequential drive asks for all it has not got yet
NextRanges(start, len) ==
    IF srv.mode = "sequential"
    THEN {[first |-> start + len, list |-> <<ClosedRange(start + len, size - 1)>>]}
    ELSE {[first |-> -1, list |-> <<>>]}
         \cup {[first |-> n, list |-> RangeList(n, o)] : n \in Offsets, o \in BOOLEAN}

\* upload_session (upload.rs:145-198): seek, read one chunk, PUT it, match
\* on the status; then the caller's handling of the result (lines 114-119
\* for the first chunk, 133-139 for the later ones).
\* Line 177 computes start_pos + len - 1 in u64: when start_pos + len = 0 the
\* subtraction overflows, which panics in a build with overflow checks and
\* wraps to 2^64 - 1 (here: end = -1, wrapped) otherwise.
ChunkPut ==
    /\ upc \in {"chunk_first", "chunk_next"}
    /\ reqs.chunk < MaxPuts
    /\ LET len == ChunkLen(srcLen, start_pos) IN
       \/ /\ Finish("ReadFile")
          /\ UNCHANGED <<now, reqs, lastPut, lastResp, lastCheck, uploading, bearer>>
       \/ /\ start_pos + len = 0
          /\ Finish("panic_overflow")
          /\ UNCHANGED <<now, reqs, lastPut, lastResp, lastCheck, uploading, bearer>>
       \/ /\ reqs' = [reqs EXCEPT !.chunk = @ + 1]
          /\ now' = now + RoundTrip
          /\ bearer' = Sent
          /\ lastCheck' = NoCheck
          /\ lastPut' = [start |-> start_pos, len |-> len,
                         end |-> start_pos + len - 1,
                         total |-> size, token |-> Bearer]
          /\ \E resp \in ChunkResponses(start_pos, len) :
              LET chunk == ChunkOutcome(resp)
                  o == IF upc = "chunk_first" THEN FirstChunkOutcome(chunk)
                       ELSE LaterChunkOutcome(chunk)
              IN
              IF o = "Some"
              THEN /\ \E r \in NextRanges(start_pos, len), e \in SessionExpirations :
                        /\ uploading' = [next_expected_ranges |-> r.list,
                                         expiration_date_time |-> e]
                        /\ lastResp' = [st |-> resp.st, first |-> r.first]
                   /\ upc' = "loop"
                   /\ UNCHANGED <<result, stack, ret>>
              ELSE /\ lastResp' = [st |-> resp.st, first |-> -1]
                   /\ Finish(o)
                   /\ UNCHANGED uploading
    /\ UNCHANGED <<folder, srv, sizeVars, credVars, size, srcLen, path, parent_id,
                   session, start_pos, resolved>>

\* variant: the loop also ends when the server names again the start of the
\* chunk it was just sent
HasMore_progress(u) == u.next_expected_ranges # <<>> /\ lastResp.first # lastPut.start
\* upload.rs:121  while !uploading.next_expected_ranges.is_empty()
HasMore(u) == u.next_expected_ranges # <<>>

\* the head of the while loop (upload.rs:121-132): the loop condition, the
\* expiration check, the parse of the first range
LoopHead ==
    /\ upc = "loop"
    /\ IF ~HasMore(uploading)
       THEN /\ Finish("Ok")
            /\ UNCHANGED <<lastCheck, start_pos>>
       ELSE /\ lastCheck' = [exp |-> uploading.expiration_date_time, at |-> now]
            /\ IF SessionExpired(uploading.expiration_date_time, now)
               THEN /\ Finish("UploadFileSession")
                    /\ UNCHANGED start_pos
               ELSE IF RangeStart(uploading.next_expected_ranges[1]) = -1
               THEN /\ Finish("panic_parse")
                    /\ UNCHANGED start_pos
               ELSE /\ start_pos' = RangeStart(uploading.next_expected_ranges[1])
                    /\ upc' = "chunk_next"
                    /\ UNCHANGED <<result, stack, ret>>
    /\ UNCHANGED <<envVars, credVars, size, srcLen, path, parent_id, session,
                   uploading, reqs, lastPut, lastResp, resolved, bearer>>

(***************************************************************************)
(* The credential state and the background task.                           *)
(***************************************************************************)
\* variant: the safety margin is left out
NeedsRefresh_no_margin(t, exp) == t > exp
\* mod.rs:119
NeedsRefresh(t, exp) == t + REFRESH_MARGIN > exp
\* variant: only a transport failure is taken for an error
IsTokenError_transport(kind) == kind = "unreachable"
\* auth.rs:73-80  request_async(...).await.map_err(...)? returns the error
IsTokenError(kind) == kind \in {"rejected", "unreachable"}

\* variant: the task ends when refresh() returns an error
AfterRefresh_stop(failed) == IF failed THEN "stopped" ELSE "sleep"
\* mod.rs:120-129: both arms of the match only log; the sleep follows
AfterRefresh(failed) == "sleep"
\* variant: the task can also be cancelled between the stores of refresh()
AwaitPoints_stores == {"check", "await", "sleep", "store_refresh", "store_expires"}
\* the places where the task is not running and abort() takes effect: not yet
\* polled (mod.rs:115), awaiting the token endpoint (auth.rs:77), sleeping
\* (mod.rs:129)
AwaitPoints == {"check", "await", "sleep"}

\* variant: refresh() presents the refresh token the client was built with
Presented_first == RefreshToken(0)
\* auth.rs:75  RefreshToken::new(self.refresh_token.load().to_string())
Presented == refresh_token

\* mod.rs:117-120, 129 and auth.rs:73-77: one turn of the loop up to its
\* next await: the sleep, or the token request of refresh()
RefreshCheck ==
    /\ rpc = "check" /\ ~dropped
    /\ turns' = [ticks |-> turns.ticks + 1,
                 refreshes |-> turns.refreshes +
                               (IF NeedsRefresh(now, expires_at) THEN 1 ELSE 0)]
    /\ IF NeedsRefresh(now, expires_at)
       THEN /\ rpc' = "await"
            /\ pre' = Triple
            /\ token_result' = [NoTokenResult EXCEPT !.kind = "pending",
                                                     !.presented = Presented]
            /\ UNCHANGED wake
       ELSE /\ rpc' = "sleep"
            /\ wake' = now + POLL_INTERVAL
            /\ UNCHANGED <<pre, token_result>>
    /\ UNCHANGED <<envVars, dropped, access_token, refresh_token, expires_at,
                   issued, snapshots, observed, uploadVars>>

\* auth.rs:77-83: the token endpoint answers; on an error refresh() returns
\* it (mod.rs:124-129: warn, sleep), otherwise the access token is stored
RefreshResponse ==
    /\ rpc = "await" /\ ~dropped
    /\ \E resp \in TokenAnswers(issued + 1, token_result.presented) :
        /\ token_result' = resp
        /\ IF IsTokenError(resp.kind)
           THEN /\ rpc' = AfterRefresh(TRUE)
                /\ wake' = now + POLL_INTERVAL
                /\ UNCHANGED <<access_token, issued>>
           ELSE /\ access_token' = AccessToken(resp.gen)
                /\ issued' = IF resp.kind = "ok" THEN issued + 1 ELSE issued
                /\ rpc' = "store_refresh"
                /\ UNCHANGED wake
    /\ UNCHANGED <<envVars, dropped, turns, refresh_token, expires_at, pre,
                   snapshots, observed, uploadVars>>

\* auth.rs:84-86: refresh_token().unwrap() panics without a refresh token
StoreRefresh ==
    /\ rpc = "store_refresh"
    /\ IF token_result.has_refresh
       THEN /\ refresh_token' = RefreshToken(token_result.gen)
            /\ rpc' = "store_expires"
       ELSE /\ rpc' = "panicked"
            /\ UNCHANGED refresh_token
    /\ UNCHANGED <<envVars, dropped, turns, access_token, expires_at, wake,
                   token_result, issued, pre, snapshots, observed, uploadVars>>

\* auth.rs:87-92 and mod.rs:121-129: expires_in().unwrap(), the store of
\* expires_at, Ok(()), then the sleep
StoreExpires ==
    /\ rpc = "store_expires"
    /\ IF token_result.has_expires
       THEN /\ expires_at' = calu_expires_at(token_result.expires_in)
            /\ snapshots' = snapshots \cup
                   {<<access_token, refresh_token, calu_expires_at(token_result.expires_in)>>}
            /\ rpc' = AfterRefresh(FALSE)
            /\ wake' = now + POLL_INTERVAL
       ELSE /\ rpc' = "panicked"
            /\ UNCHANGED <<expires_at, snapshots, wake>>
    /\ UNCHANGED <<envVars, dropped, turns, access_token, refresh_token,
                   token_result, issued, pre, observed, uploadVars>>

\* mod.rs:129: the sleep is over
Wake ==
    /\ rpc = "sleep" /\ ~dropped
    /\ now >= wake
    /\ rpc' = "check"
    /\ UNCHANGED <<envVars, dropped, turns, access_token, refresh_token,
                   expires_at, wake, token_result, issued, pre, snapshots, observed,
                   uploadVars>>

\* Drop for Onedrive (mod.rs:42-46): refresh_handle.abort()
Drop ==
    /\ ~dropped
    /\ upc \in {"idle", "done"}
    /\ dropped' = TRUE
    /\ UNCHANGED <<envVars, turns, access_token, refresh_token, expires_at,
                   rpc, wake, token_result, issued, pre, snapshots, observed,
                   uploadVars>>

\* the aborted task is dropped where it is not running: it is never polled
\* again, whatever it was awaiting
Cancelled ==
    /\ dropped
    /\ rpc \in AwaitPoints
    /\ rpc' = "aborted"
    /\ UNCHANGED <<envVars, dropped, turns, access_token, refresh_token,
                   expires_at, wake, token_result, issued, pre, snapshots, observed,
                   uploadVars>>

\* a task on another worker thread loads the credential state
\* (upload.rs:86 and the like, mod.rs:62-64, mod.rs:117)
Reader ==
    /\ observed' = Triple
    /\ UNCHANGED <<envVars, dropped, turns, access_token, refresh_token,
                   expires_at, rpc, wake, token_result, issued, pre, snapshots,
                   uploadVars>>

Upload == \/ StartUpload
          \/ GetParentIdRequest
          \/ CreateFolderStart
          \/ CreateFolderRequest
          \/ ResolverReturn
          \/ CaluPathReturn
          \/ DirectPut
          \/ CreateSession
          \/ ChunkPut
          \/ LoopHead

Next == Upload \/ Tick

Spec == Init /\ [][Next]_vars

\* u64_to_size_string applied to one byte count
Render ==
    /\ rendered = <<>>
    /\ \E b \in ByteCounts :
          /\ bytes' = b
          /\ rendered' = u64_to_size_string(b)
    /\ UNCHANGED <<now, folder, srv, credVars, uploadVars>>

RenderSpec == Init /\ [][Render]_vars

\* the same upload() against the sequential drive
SeqSpec == SeqInit /\ [][Next]_vars

\* the background task of refresh_handle (mod.rs:114-132)
Refresher == \/ RefreshCheck
             \/ RefreshResponse
             \/ StoreRefresh
             \/ StoreExpires
             \/ Wake

CredNext == \/ Refresher
            \/ Reader
            \/ Drop
            \/ Cancelled
            \/ Tick

CredSpec == CredInit /\ [][CredNext]_vars

\* upload() against the deadline drive; the caller awaits upload(), so the
\* runtime polls it whenever it can go on
DeadlineInit == Constructed({REFRESH_MARGIN + TickLen}, {DeadlineServer})
DeadlineSpec == DeadlineInit /\ [][Next]_vars /\ WF_vars(Upload)

\* the background task alone, every refresh succeeding without delay
PromptInit == Constructed(LongLifetimes, {PromptServer})
PromptNext == Refresher \/ Reader \/ Tick
PromptSpec == PromptInit /\ [][PromptNext]_vars

\* upload() against the sequential drive while the background task runs
JointNext == Upload \/ Refresher \/ Tick

JointSpec == JointInit /\ [][JointNext]_vars

(***************************************************************************)
(* Properties.                                                             *)
(***************************************************************************)
InRange == size >= CHUNK_SIZE /\ size <= MAX_FILE_LIMIT
Called == upc # "idle"
TypedErrors == {"FileTooLarge", "InvalidPath", "GetParentId", "Parsing", "CreateDir",
                "CreateUploadSessionRequest", "UploadFileSession",
                "UploadFileSessionRequest", "ReadFile", "UploadFile"}

\* C1: whatever a concurrent reader loads from the credential state is one
\* of the complete triples (access token, refresh token, expiry) stored by
\* construction or by a completed refresh, never a mix of two of them.
C1_ReaderSeesWholeTriple == observed \in snapshots

\* C2: a 200 or 201 answer to any chunk PUT, the first one included, ends
\* the upload with Ok.
C2_CompletionStatusReturnsOk ==
    lastResp.st \in {200, 201} => (upc = "done" /\ result = "Ok")

\* C3: every successful return of get_parent_id(folder) carries the
\* identifier of folder itself.
C3_ResolvedIsFolderItself == \A r \in resolved : r[2] = r[1]

\* C4: an upload with a declared size above MAX_FILE_LIMIT returns
\* FileTooLarge and issues no request; every upload that issues a request
\* has a declared size of at most MAX_FILE_LIMIT.
C4_TooLargeIssuesNothing ==
    /\ (Called /\ size > MAX_FILE_LIMIT) =>
           (upc = "done" /\ result = "FileTooLarge" /\ Total(reqs) = 0)
    /\ Total(reqs) > 0 => size <= MAX_FILE_LIMIT
C4_Witness == upc = "done" /\ size = MAX_FILE_LIMIT + 1 /\ result = "FileTooLarge"

\* C5: an upload with a declared size below CHUNK_SIZE never requests a
\* session or sends a chunk, and sends at most one content PUT, which carries
\* the whole source.
C5_SmallGoesDirect ==
    (Called /\ size < CHUNK_SIZE) =>
        /\ reqs.session = 0 /\ reqs.chunk = 0 /\ reqs.direct <= 1
        /\ reqs.direct = 1 => (lastPut.start = 0 /\ lastPut.len = srcLen)
C5_Witness == size = CHUNK_SIZE - 1 /\ reqs.direct = 1 /\ result = "Ok"

\* C6: an upload with CHUNK_SIZE <= size <= MAX_FILE_LIMIT never sends the
\* direct content PUT, requests at most one session and exactly one before
\* any chunk PUT, goes on to a further chunk PUT while the last answer was a
\* 202 with outstanding ranges and an unexpired session, and returns Ok only
\* after an answer with no outstanding range or with a completion status.
C6_ChunkedInRange ==
    (Called /\ InRange) =>
        /\ reqs.direct = 0
        /\ reqs.session <= 1
        /\ reqs.chunk > 0 => reqs.session = 1
        /\ upc \in {"chunk_first", "chunk_next", "loop"} => reqs.session = 1
        /\ (upc = "chunk_next") =>
               (lastResp.st = 202 /\ uploading.next_expected_ranges # <<>>)
        /\ result = "Ok" =>
               /\ reqs.session = 1 /\ reqs.chunk >= 1
               /\ \/ lastResp.st \in {200, 201}
                  \/ lastResp.st = 202 /\ uploading.next_expected_ranges = <<>>
C6_Witness == size = CHUNK_SIZE /\ result = "Ok" /\ reqs.session = 1 /\ reqs.chunk >= 2

\* C7: every chunk PUT, the first and each later one, is sent only after the
\* most recently reported expiration was compared with the clock and found
\* not to have passed; when the comparison finds it passed, upload() returns
\* UploadFileSession; a finished upload issues no further request.
CurrentExpiration == IF upc = "chunk_first" THEN session.expiration_date_time
                     ELSE uploading.expiration_date_time
C7_ExpiryCheckedBeforeEveryChunk ==
    [][ /\ reqs'.chunk > reqs.chunk =>
              /\ lastCheck # NoCheck
              /\ lastCheck.exp = CurrentExpiration
              /\ ~(lastCheck.exp < lastCheck.at)
        /\ (lastCheck' # NoCheck /\ lastCheck'.exp < lastCheck'.at) =>
              (upc' = "done" /\ result' = "UploadFileSession")
        /\ upc = "done" => reqs' = reqs ]_vars
C7_Witness == /\ upc = "done" /\ result = "UploadFileSession" /\ reqs.chunk >= 1
              /\ lastCheck # NoCheck /\ lastCheck.exp < lastCheck.at

\* C8: a chunk PUT that follows a 202 answer with outstanding ranges starts
\* at the start offset of the first range of that answer.
C8_NextStartIsFirstRangeStart ==
    [][ (reqs'.chunk > reqs.chunk /\ reqs.chunk >= 1) =>
            (lastResp.st = 202 /\ lastResp.first >= 0
             /\ lastPut'.start = lastResp.first) ]_vars
\* a gap: the second PUT starts beyond the end of the first
C8_Witness == /\ reqs.chunk = 2 /\ size = MAX_FILE_LIMIT
              /\ lastPut.start = CHUNK_SIZE + (CHUNK_SIZE \div 2)

\* C9: after a refresh() that failed because the token endpoint rejected the
\* refresh token or was unreachable, access token, refresh token and expiry
\* are what they were when the call began.
C9_FailedRefreshKeepsTriple ==
    token_result.kind \in {"rejected", "unreachable"} => Triple = pre
C9_Witness == /\ token_result.kind = "rejected" /\ rpc = "sleep"
              /\ issued >= 1 /\ access_token = AccessToken(issued)

\* C10: upload() never aborts on an unexpected status otherwise than by
\* returning a typed error: it ends with Ok or with one of the Error values.
C10_UnexpectedStatusIsTypedError ==
    (upc = "done" /\ result \notin {"panic_parse", "panic_overflow"}) =>
        result \in TypedErrors \cup {"Ok"}

\* the folder calu_path resolves: the parent of the joined destination
Target == Parent(Join(folder, path.segs))
\* upload() got as far as path resolution
Resolves == Called /\ ~FileTooLarge(size) /\ ~path.root /\ Target # NoPath
\* path resolution is over: calu_path returned, or upload() ended
ResolutionOver == parent_id # NoPath \/ upc = "done"
\* the segments of t the drive ex does not hold, parents first
ExistingDepth(t, ex) == CHOOSE d \in 0..Len(t) :
                           /\ SubSeq(t, 1, d) \in ex
                           /\ \A j \in (d + 1)..Len(t) : SubSeq(t, 1, j) \notin ex
MissingChain(t, ex) == [i \in 1..(Len(t) - ExistingDepth(t, ex)) |->
                           SubSeq(t, 1, ExistingDepth(t, ex) + i)]

\* C11: against the sequential drive, with k segments of the parent chain
\* missing, the create-folder calls made so far are the first missing
\* segments, parents first, one call each; when path resolution is over
\* they are exactly the k missing segments, and no existing segment got one.
C11_OneCreatePerMissingSegment ==
    (srv.mode = "sequential" /\ Resolves) =>
        LET chain == MissingChain(Target, srv.initial) IN
        /\ reqs.create = Len(srv.created)
        /\ Len(srv.created) <= Len(chain)
        /\ srv.created = SubSeq(chain, 1, Len(srv.created))
        /\ ResolutionOver => srv.created = chain
\* two segments were missing and resolution is over
C11_Witness == /\ srv.mode = "sequential" /\ Resolves /\ parent_id # NoPath
               /\ Len(MissingChain(Target, srv.initial)) = 2 /\ reqs.create = 2

\* C12: an upload() with an absolute destination path and a declared size
\* within the limit, below or above the chunk threshold, has ended with
\* InvalidPath and has issued no request.
C12_AbsolutePathRejectedFirst ==
    (Called /\ path.root /\ size <= MAX_FILE_LIMIT) =>
        (upc = "done" /\ result = "InvalidPath" /\ Total(reqs) = 0)
\* the chunked way
C12_Witness == /\ upc = "done" /\ path.root /\ size = MAX_FILE_LIMIT
               /\ result = "InvalidPath"

\* C13: a refresh() that fails in the background task only sends the task
\* to its sleep of one poll interval, and no step of any upload() is touched
\* by the failure or ever returns it; the sleep ends in the next turn of the
\* loop only, and a turn that finds the token within the safety margin calls
\* refresh() again, however many calls have failed before.
C13_FailedRefreshIsRetried ==
    [][ /\ (rpc = "await" /\ token_result'.kind \in {"rejected", "unreachable"}) =>
              /\ rpc' = "sleep" /\ wake' = now + POLL_INTERVAL
              /\ uploadVars' = uploadVars
        /\ (rpc = "sleep" /\ rpc' # "sleep") => (rpc' = "check" /\ now >= wake)
        /\ (rpc = "check" /\ rpc' # "check" /\ now + REFRESH_MARGIN > expires_at) =>
              (rpc' = "await" /\ turns'.refreshes = turns.refreshes + 1)
        /\ result' # "RefreshToken" ]_vars
\* two calls of refresh(), both failed, beside an upload that returned Ok
C13_Witness == /\ turns.refreshes = 2 /\ issued = 0 /\ rpc = "sleep"
               /\ token_result.kind \in {"rejected", "unreachable"}
               /\ upc = "done" /\ result = "Ok"

\* the rendered string taken apart: "<integer>.<fraction> <unit>"
RenderedNumber == Split(Split(rendered, " ")[1], ".")
RenderedUnit == CHOOSE i \in 0..(Len(units) - 1) : units[i + 1] = Split(rendered, " ")[2]
RenderedHundredths == ParseU64(RenderedNumber[1]) * 100 + ParseU64(RenderedNumber[2])
\* the position of the leading base-UNIT_FACTOR digit of a byte count
TopDigit(b) == IF b.hi > 0 THEN b.e + 1 ELSE 0
\* the count scaled to unit i is below UNIT_FACTOR
ScaledBelowFactor(b, i) == TopDigit(b) <= i
\* the number is printed with two decimals and is the count scaled to unit
\* i, to the nearest hundredth
TwoDecimals(b, i) ==
    /\ Len(Split(rendered, " ")) = 2 /\ Len(RenderedNumber) = 2
    /\ Len(RenderedNumber[2]) = 2
    /\ IF i = TopDigit(b) /\ b.hi > 0
       THEN LET d == RenderedHundredths * UNIT_FACTOR
                     - 100 * (b.hi * UNIT_FACTOR + b.lo)
            IN 2 * d <= UNIT_FACTOR /\ 2 * d >= 0 - UNIT_FACTOR
       ELSE i = 0 /\ RenderedHundredths = 100 * b.lo
\* the three renderings the specification quotes
QuotedRenderings ==
    /\ bytes = [hi |-> 1, lo |-> 0, e |-> 0] =>
           rendered = <<"1", ".", "0", "0", " ", "K", "B">>
    /\ bytes = [hi |-> 2, lo |-> 0, e |-> 1] =>
           rendered = <<"2", ".", "0", "0", " ", "M", "B">>
    /\ bytes = [hi |-> 250, lo |-> 0, e |-> 2] =>
           rendered = <<"2", "5", "0", ".", "0", "0", " ", "G", "B">>

\* C14 as worded: the unit of a rendered byte count is the largest of the
\* nine units in which the scaled value is below UNIT_FACTOR, the number has
\* two decimals, and 1024, 2097152 and 268435456000 render as quoted.
C14_LargestUnitBelowFactor ==
    rendered # <<>> =>
        /\ ScaledBelowFactor(bytes, RenderedUnit)
        /\ \A j \in (RenderedUnit + 1)..(Len(units) - 1) : ~ScaledBelowFactor(bytes, j)
        /\ TwoDecimals(bytes, RenderedUnit)
        /\ QuotedRenderings
\* C14, amended: the unit of a rendered byte count is the smallest of the
\* nine units in which the scaled value is below UNIT_FACTOR (B for 0), the
\* number is the scaled value rounded to two decimals, and 1024, 2097152 and
\* 268435456000 render as quoted.
C14_SmallestUnitBelowFactor ==
    rendered # <<>> =>
        /\ ScaledBelowFactor(bytes, RenderedUnit)
        /\ \A j \in 0..(RenderedUnit - 1) : ~ScaledBelowFactor(bytes, j)
        /\ TwoDecimals(bytes, RenderedUnit)
        /\ QuotedRenderings
\* 250 GiB was rendered
C14_Witness == /\ bytes = [hi |-> 250, lo |-> 0, e |-> 2]
               /\ rendered = <<"2", "5", "0", ".", "0", "0", " ", "G", "B">>

\* C15: whatever the server answers, path resolution of a parent folder of
\* depth d issues at most 2^(d+1) - 1 lookups and creates and nests at most
\* 2 (d + 1) calls; a call of get_parent_id or create_folder nested in a call
\* of the same function works on a strictly shorter path and no nested call on
\* a longer one; create_folder of the drive root (reached by a 404 on the
\* root's lookup) returns InvalidPath at once, without a request or a
\* further call.
C15_ResolutionTerminates ==
    [][ /\ Resolves' =>
              /\ reqs'.lookup + reqs'.create <= 2 ^ (Len(Target') + 1) - 1
              /\ Len(stack') <= 2 * (Len(Target') + 1)
        /\ \A i, j \in 1..Len(stack') :
              (i < j) =>
                 /\ Len(stack'[j].folder) <= Len(stack'[i].folder)
                 /\ stack'[i].fn = stack'[j].fn =>
                        Len(stack'[j].folder) < Len(stack'[i].folder)
        /\ (/\ Resolving /\ ~ret.set /\ stack # <<>> /\ stack' # stack
            /\ Top.fn = "create" /\ Top.folder = <<>>) =>
              (ret' = ErrRet("InvalidPath") /\ stack' = Pop /\ reqs' = reqs) ]_vars
\* a resolution of depth 2 that took all 7 requests
C15_Witness == /\ Resolves /\ Len(Target) = 2
               /\ reqs.lookup + reqs.create = 7 /\ reqs.create = 3

\* C16: a turn of the background loop calls refresh() exactly when
\* now + 120 > expires_at, and then awaits the token endpoint, else it goes
\* to sleep; refresh() is called in a turn only, once at most; the first
\* turn needs no sleep, every later one comes when a sleep of 60 s, begun at
\* the end of the turn before, is over.
C16_RefreshExactlyWithinMargin ==
    [][ /\ turns'.ticks = turns.ticks + 1 =>
              /\ turns'.refreshes = turns.refreshes +
                     (IF now + REFRESH_MARGIN > expires_at THEN 1 ELSE 0)
              /\ rpc' = IF now + REFRESH_MARGIN > expires_at THEN "await" ELSE "sleep"
              /\ turns.ticks = 0 => wake = 0
              /\ turns.ticks > 0 => now >= wake
        /\ turns'.ticks \in {turns.ticks, turns.ticks + 1}
        /\ turns'.refreshes # turns.refreshes => turns'.ticks = turns.ticks + 1
        /\ turns'.refreshes <= turns'.ticks
        /\ wake' # wake => (wake' = now + POLL_INTERVAL /\ rpc' = "sleep") ]_vars
\* a turn without and a turn with a call of refresh()
C16_Witness == turns.ticks = 2 /\ turns.refreshes = 1 /\ now = POLL_INTERVAL

\* C17: once Onedrive is dropped the background task takes no further turn
\* and handles no further token response: it comes to an end where it
\* sleeps or waits for the token endpoint (or before it ever ran), and in
\* the state it leaves behind access token, refresh token and expiry are
\* those of one token response: the one stored by construction or by one
\* completed refresh.
C17_CancelLeavesWholeTriple ==
    [][ /\ (rpc' = "aborted" /\ rpc # "aborted") =>
              (dropped /\ rpc \in {"check", "await", "sleep"})
        /\ rpc' = "aborted" => Triple' \in snapshots'
        /\ dropped =>
              /\ turns' = turns
              /\ rpc' \in {rpc, "aborted", "store_expires", "sleep", "panicked"}
              /\ rpc \in {"check", "await", "sleep"} => rpc' \in {rpc, "aborted"}
              /\ rpc = "aborted" => Triple' = Triple ]_vars
\* cancelled with the triple of a refreshed token in place
C17_Witness == /\ rpc = "aborted" /\ dropped /\ issued = 1
               /\ token_result.kind = "ok" /\ access_token = AccessToken(1)
               /\ refresh_token = RefreshToken(1)

\* the states of the chunked path, read off the last answer and the last
\* expiration check
Completed == \/ lastResp.st \in {200, 201}
             \/ lastResp.st = 202 /\ uploading.next_expected_ranges = <<>>
Expired == lastCheck # NoCheck /\ lastCheck.exp < lastCheck.at
Failed == upc = "done" /\ ~Completed /\ ~Expired
SessionCreated == reqs.session = 1 /\ session # NoSession

\* C18: on the chunked path, once the session is created, an upload that is
\* Completed, Expired or Failed issues no further request; upload() has
\* returned Ok exactly when the transfer is Completed, and an error value
\* when it is Expired or Failed.
C18_ChunkedStateMachine ==
    [][ (InRange' /\ SessionCreated') =>
            /\ (SessionCreated /\ (Completed \/ Expired \/ Failed)) => reqs' = reqs
            /\ upc' = "done" =>
                  /\ result' = "Ok" <=> Completed'
                  /\ (Expired' \/ Failed') => result' \in TypedErrors ]_vars

\* the last content PUT (direct or chunk) got no response, or a 4xx or 5xx
PutFailed == /\ reqs.direct + reqs.chunk >= 1
             /\ lastResp.st = 0 \/ (lastResp.st >= 400 /\ lastResp.st <= 599)

\* C19: with the failure of a content PUT (no response, or a 4xx or 5xx
\* status) upload() ends at once and returns the error of that PUT, and no
\* request, so no second PUT of the range, follows it.
C19_FailedPutIsNotRetried ==
    [][ /\ PutFailed' =>
              /\ upc' = "done"
              /\ result' = IF reqs'.direct = 1 THEN "UploadFile"
                           ELSE "UploadFileSessionRequest"
        /\ PutFailed => (reqs' = reqs /\ lastPut' = lastPut) ]_vars
\* the second chunk PUT failed
C19_Witness == /\ upc = "done" /\ reqs.chunk = 2 /\ lastResp.st = 500
               /\ result = "UploadFileSessionRequest"

\* C20: every request of an upload carries the access token stored at the
\* moment the request is built, so a request built after a refresh has
\* stored a new access token carries the new one, whatever the upload's
\* earlier requests carried.
C20_RequestCarriesCurrentToken ==
    [][ Total(reqs') > Total(reqs) =>
            /\ bearer'.last = access_token
            /\ reqs'.direct + reqs'.chunk > reqs.direct + reqs.chunk =>
                   lastPut'.token = access_token ]_vars
\* the upload began with the first token and sent a chunk with the second
C20_Witness == /\ bearer.first = AccessToken(0) /\ bearer.last = AccessToken(1)
               /\ reqs.chunk >= 1 /\ lastPut.token = AccessToken(1)

\* C21: the chunk loop counts no iterations and asks for no progress.  When a
\* 202 names again the start of the chunk it answers, with an expiration that
\* has not passed, the loop goes on to PUT a chunk at that same start, however
\* many chunks were sent before: against a server that always answers so,
\* the chunk PUTs never end.
Repeated == /\ lastResp.st = 202
            /\ lastResp.first = lastPut.start
            /\ uploading.next_expected_ranges # <<>>
            /\ RangeStart(uploading.next_expected_ranges[1]) = lastPut.start
            /\ ~SessionExpired(uploading.expiration_date_time, now)
C21_LoopGoesOnWithoutProgress ==
    [][(upc = "loop" /\ upc' # "loop" /\ Repeated)
          => /\ upc' = "chunk_next"
             /\ start_pos' = lastPut.start
             /\ result' = "none"]_vars
\* as many chunk PUTs as are followed went to the same start, the source has
\* the bytes, and the next PUT to that start is due
C21_Witness ==
    /\ upc = "chunk_next" /\ reqs.chunk = MaxPuts
    /\ srcLen = size
    /\ lastPut.start = CHUNK_SIZE \div 2 /\ start_pos = lastPut.start
    /\ lastResp.st = 202 /\ lastResp.first = lastPut.start

\* C22: against a server that accepts every chunk (202 with the one next
\* contiguous range while bytes are missing, 201 with the last byte), the
\* upload of a source that holds exactly size bytes, CHUNK_SIZE <= size <=
\* MAX_FILE_LIMIT, sends its chunk PUTs over [0, size) in ascending order,
\* each of CHUNK_SIZE bytes but the last, ceil(size / CHUNK_SIZE) in all, and
\* returns Ok.
Chunks(s) == (s + CHUNK_SIZE - 1) \div CHUNK_SIZE
C22_AcceptedUploadReturnsOk ==
    (srv.mode = "sequential" /\ InRange /\ srcLen = size /\ SessionCreated) =>
        /\ reqs.chunk >= 1 =>
              /\ lastPut.start = (reqs.chunk - 1) * CHUNK_SIZE
              /\ lastPut.end = Min(reqs.chunk * CHUNK_SIZE, size) - 1
        /\ (upc = "done" /\ result # "ReadFile" /\ ~Expired) =>
              (result = "Ok" /\ reqs.chunk = Chunks(size))

\* C23: when the source holds exactly the declared size, every chunk PUT,
\* whatever start the server named for it, carries at least one byte and a
\* well-formed range: start <= end < total, Content-Length = end - start + 1
\* <= CHUNK_SIZE; the subtraction in end = start + len - 1 never underflows.
C23_ChunkRangeWellFormed ==
    (InRange /\ srcLen = size) =>
        /\ result # "panic_overflow"
        /\ reqs.chunk >= 1 =>
              /\ lastPut.len >= 1 /\ lastPut.len <= CHUNK_SIZE
              /\ lastPut.start <= lastPut.end /\ lastPut.end < lastPut.total
              /\ lastPut.len = lastPut.end - lastPut.start + 1

\* C24: after every 202 whose first outstanding range is "N-M" or "N-", with
\* an expiration that has not passed, the client goes on with the chunk that
\* starts at N; reading the range list never makes upload() end abnormally.
C24_BothRangeFormsAreRead ==
    [][(/\ upc = "loop" /\ upc' # "loop"
        /\ lastResp.st = 202 /\ lastResp.first # -1
        /\ ~SessionExpired(uploading.expiration_date_time, now))
          => /\ upc' = "chunk_next"
             /\ start_pos' = lastResp.first
             /\ result' # "panic_parse"]_vars

\* C25: when the server never reports an expiration after a fixed instant,
\* every request is answered and time passes with every round of the chunk
\* loop, a chunked upload whose session was created eventually is Completed,
\* Expired or Failed and upload() has ended, whatever ranges the server names.
Terminal == upc = "done" /\ (Completed \/ Expired \/ Failed)
C25_ChunkedUploadEnds == (InRange /\ SessionCreated) ~> Terminal
\* after two chunks the expiration was found passed
C25_Witness == /\ srv.mode = "deadline" /\ InRange /\ SessionCreated
               /\ reqs.chunk = 2 /\ Terminal /\ Expired

\* C26: when every refresh() succeeds without delay and every token issued
\* lives longer than REFRESH_MARGIN, the stored expiry is in the future at
\* every moment after construction, and so is the expiry of the access token
\* that a request loads: while the task rests, token and expiry are those of
\* one token response.
C26_StoredExpiryInFuture ==
    /\ expires_at > now
    /\ rpc \in {"check", "sleep"} => Triple \in snapshots
\* a refresh has replaced a token whose expiry has passed by now
C26_Witness ==
    /\ srv.mode = "prompt" /\ rpc = "sleep" /\ issued >= 1
    /\ \E t \in snapshots : t[3] < now

\* C27: refresh tokens are chained.  Each refresh() presents the refresh
\* token that is stored when it is called, which is the one of the latest
\* token pair the endpoint issued (the one of construction before any
\* refresh) and belongs to the triple the last completed refresh left;
\* Onedrive::refresh_token() returns the stored token; a stored token is only
\* replaced by a newer one, so a replaced token is never presented again.
RefreshCalled == rpc = "check" /\ rpc' = "await"
C27_RefreshTokensAreChained ==
    [][ /\ RefreshCalled =>
              /\ token_result'.presented = refresh_token
              /\ refresh_token = RefreshToken(issued)
              /\ Triple \in snapshots
        /\ observed' # observed => observed'[2] = refresh_token
        /\ refresh_token' # refresh_token =>
              /\ refresh_token' = RefreshToken(token_result.gen)
              /\ refresh_token'[2] > refresh_token[2]
        /\ token_result'.presented[2] >= token_result.presented[2]
        /\ rpc' = "await" => token_result'.presented = refresh_token' ]_vars
\* the second refresh() presents the token the first one stored, which
\* refresh_token() has returned
C27_Witness ==
    /\ rpc = "await" /\ token_result.presented = RefreshToken(1)
    /\ refresh_token = RefreshToken(1) /\ observed[2] = RefreshToken(1)

====
